---- MODULE Spec2Model ----
(***************************************************************************)
(* A model of languagemodels/languagemodels.py and of the chat demo        *)
(* examples/streamlitchat.py.                                              *)
(*                                                                         *)
(* Text is a sequence of chunks (<<>> is the empty string, \o is +), so    *)
(* that emptiness, concatenation and prefixes behave as they do on str.    *)
(* Everything the third-party libraries decide (whether a loader succeeds, *)
(* what the completion API answers, what a model generates, the similarity *)
(* scores, the encyclopedia's pages) is an input drawn from a small set.   *)
(***************************************************************************)
EXTENDS Integers, Sequences, FiniteSets, TLC

VARIABLES environ, modelcache, tokenizercache, modelloads, tokloads, last,
          thr, session

vars == <<environ, modelcache, tokenizercache, modelloads, tokloads, last,
          thr, session>>

(***************************************************************************)
(* Bounds of the model.                                                    *)
(***************************************************************************)
MaxLoads == 3
MaxDocs == 3
MaxScore == 1
MaxCand == 3
MaxTurns == 2

(***************************************************************************)
(* Program constants.                                                      *)
(***************************************************************************)
max_tokens == 200
search_limit == 5

CredVar == "textsynth-api-key"
CompletionUrl == "https://api.textsynth.com/v1/engines/flan_t5_xxl/completions"
FlanId == "google/flan-t5-large"
MatchId == "sentence-transformers/multi-qa-MiniLM-L6-cos-v1"
QAId == "distilbert-base-cased-distilled-squad"
SentimentId == "distilbert-base-uncased-finetuned-sst-2-english"

ModelIds == {FlanId, MatchId, QAId, SentimentId}
TokIds == {FlanId}

(***************************************************************************)
(* Inputs.                                                                 *)
(***************************************************************************)
\* os.environ restricted to the credential variable: unset, set to the
\* empty string, set to a key.
Environs == {<<>>} \cup {[k \in {CredVar} |-> v] : v \in {<<>>, <<"sk">>}}

\* What a loader call does: it returns a new object or raises.
LoadOutcomes == {"ok", "OSError"}

\* JSON objects the completion API answers with.
Resps == {[text |-> <<"Hola">>], [text |-> <<>>],
          [error |-> <<"bad key">>], [status |-> <<"queued">>]}
NoResp == [none |-> <<>>]

Prompts == {<<"Translate: Hello">>}
GenOutputs == {<<"Hola">>, <<>>}

(***************************************************************************)
(* The two caches and, as history, how often each loader was invoked.      *)
(***************************************************************************)
NoHandle == [loader |-> "", id |-> "", n |-> 0]

\* A loader returns a new object at every invocation.
Handle(loader, id, n) == [loader |-> loader, id |-> id, n |-> n]

\* d.setdefault(k, v): an entry that exists is kept.
Put_setdefault(d, k, v) ==
    [x \in DOMAIN d \cup {k} |-> IF x \in DOMAIN d THEN d[x] ELSE v]

\* d[k] = v on a dict
Put(d, k, v) == [x \in DOMAIN d \cup {k} |-> IF x = k THEN v ELSE d[x]]

St == [mc |-> modelcache, tc |-> tokenizercache,
       ml |-> modelloads, tl |-> tokloads]

Commit(s) ==
    /\ modelcache' = s.mc
    /\ tokenizercache' = s.tc
    /\ modelloads' = s.ml
    /\ tokloads' = s.tl

\* The number of loader invocations so far, over both caches.
Invocations(s) ==
    s.ml[FlanId] + s.ml[MatchId] + s.ml[QAId] + s.ml[SentimentId]
    + s.tl[FlanId]

Bounded(s) == Invocations(s) <= MaxLoads

\* The "if model not in modelcache: modelcache[model] = <loader>(model)"
\* statement shared by get_model, match, extract_answer and is_positive.
ModelCachePopulate(s, loader, model, ld) ==
    IF model \notin DOMAIN s.mc
    THEN IF ld = "ok"
         THEN [st |-> [s EXCEPT
                         !.mc = Put(s.mc, model,
                                    Handle(loader, model, s.ml[model] + 1)),
                         !.ml[model] = @ + 1],
               raised |-> "none"]
         ELSE [st |-> [s EXCEPT !.ml[model] = @ + 1], raised |-> ld]
    ELSE [st |-> s, raised |-> "none"]

\* get_model with the membership test dropped: it loads at every call.
get_model_reload(s, model, ld) ==
    IF ld = "ok"
    THEN LET h == Handle("AutoModelForSeq2SeqLM", model, s.ml[model] + 1)
         IN  [st |-> [s EXCEPT !.mc = Put(s.mc, model, h),
                               !.ml[model] = @ + 1],
              raised |-> "none", ret |-> h]
    ELSE [st |-> [s EXCEPT !.ml[model] = @ + 1],
          raised |-> ld, ret |-> NoHandle]

\* get_model reserving the key before the load: a failed load leaves it.
get_model_reserve(s, model, ld) ==
    IF model \notin DOMAIN s.mc
    THEN IF ld = "ok"
         THEN LET h == Handle("AutoModelForSeq2SeqLM", model, s.ml[model] + 1)
              IN  [st |-> [s EXCEPT !.mc = Put(s.mc, model, h),
                                    !.ml[model] = @ + 1],
                   raised |-> "none", ret |-> h]
         ELSE [st |-> [s EXCEPT !.mc = Put(s.mc, model, NoHandle),
                               !.ml[model] = @ + 1],
               raised |-> ld, ret |-> NoHandle]
    ELSE [st |-> s, raised |-> "none", ret |-> s.mc[model]]

get_model(s, model, ld) ==
    LET p == ModelCachePopulate(s, "AutoModelForSeq2SeqLM", model, ld)
    IN  IF p.raised # "none"
        THEN [st |-> p.st, raised |-> p.raised, ret |-> NoHandle]
        ELSE [st |-> p.st, raised |-> "none", ret |-> p.st.mc[model]]

get_tokenizer(s, tokenizer, ld) ==
    IF tokenizer \notin DOMAIN s.tc
    THEN IF ld = "ok"
         THEN LET h == Handle("AutoTokenizer", tokenizer, s.tl[tokenizer] + 1)
                  t == [s EXCEPT !.tc = Put(s.tc, tokenizer, h),
                                 !.tl[tokenizer] = @ + 1]
              IN  [st |-> t, raised |-> "none", ret |-> t.tc[tokenizer]]
         ELSE [st |-> [s EXCEPT !.tl[tokenizer] = @ + 1],
               raised |-> ld, ret |-> NoHandle]
    ELSE [st |-> s, raised |-> "none", ret |-> s.tc[tokenizer]]

(***************************************************************************)
(* do                                                                      *)
(***************************************************************************)
\* os.environ.get(k): the value, or None
environ_get(env, k) ==
    IF k \in DOMAIN env THEN [isnone |-> FALSE, val |-> env[k]]
                        ELSE [isnone |-> TRUE, val |-> <<>>]

\* the truth value "if x:" gives a str or None
truthy(g) == ~g.isnone /\ g.val # <<>>

DoResult(s, path, raised, ret, posts, carried, generated, h, th) ==
    [st |-> s, path |-> path, raised |-> raised, ret |-> ret, posts |-> posts,
     carried |-> carried, generated |-> generated, handle |-> h,
     tokhandle |-> th]

\* do branching on the presence of the variable ("textsynth-api-key" in
\* os.environ) instead of on the truth value of its value.
do_presence(env, s, prompt, io) ==
    IF CredVar \in DOMAIN env
    THEN LET request == [url |-> CompletionUrl,
                         authorization |-> <<"Bearer ">> \o env[CredVar],
                         json |-> [prompt |-> prompt,
                                   max_tokens |-> max_tokens]]
         IN  IF "text" \in DOMAIN io.resp
             THEN DoResult(s, "remote", "none", io.resp.text, <<request>>,
                           NoResp, FALSE, NoHandle, NoHandle)
             ELSE DoResult(s, "remote", "InferenceException", <<>>,
                           <<request>>, io.resp, FALSE, NoHandle, NoHandle)
    ELSE LET m == get_model(s, FlanId, io.ldm)
             t == get_tokenizer(m.st, FlanId, io.ldt)
         IN  IF m.raised # "none"
             THEN DoResult(m.st, "local", m.raised, <<>>, <<>>, NoResp,
                           FALSE, NoHandle, NoHandle)
             ELSE IF t.raised # "none"
             THEN DoResult(t.st, "local", t.raised, <<>>, <<>>, NoResp,
                           FALSE, m.ret, NoHandle)
             ELSE DoResult(t.st, "local", "none", io.gen, <<>>, NoResp,
                           TRUE, m.ret, t.ret)

\* do testing the truth value of the text field (if resp.get("text"))
\* instead of its presence.
do_truthtext(env, s, prompt, io) ==
    IF truthy(environ_get(env, CredVar))
    THEN LET request == [url |-> CompletionUrl,
                         authorization |-> <<"Bearer ">> \o env[CredVar],
                         json |-> [prompt |-> prompt,
                                   max_tokens |-> max_tokens]]
         IN  IF "text" \in DOMAIN io.resp /\ io.resp.text # <<>>
             THEN DoResult(s, "remote", "none", io.resp.text, <<request>>,
                           NoResp, FALSE, NoHandle, NoHandle)
             ELSE DoResult(s, "remote", "InferenceException", <<>>,
                           <<request>>, io.resp, FALSE, NoHandle, NoHandle)
    ELSE LET m == get_model(s, FlanId, io.ldm)
             t == get_tokenizer(m.st, FlanId, io.ldt)
         IN  IF m.raised # "none"
             THEN DoResult(m.st, "local", m.raised, <<>>, <<>>, NoResp,
                           FALSE, NoHandle, NoHandle)
             ELSE IF t.raised # "none"
             THEN DoResult(t.st, "local", t.raised, <<>>, <<>>, NoResp,
                           FALSE, m.ret, NoHandle)
             ELSE DoResult(t.st, "local", "none", io.gen, <<>>, NoResp,
                           TRUE, m.ret, t.ret)

\* io.resp: what response.json() is; io.ldm, io.ldt: what the two loaders
\* do if invoked; io.gen: the first decoded output of model.generate.
do(env, s, prompt, io) ==
    IF truthy(environ_get(env, CredVar))
    THEN LET request == [url |-> CompletionUrl,
                         authorization |-> <<"Bearer ">> \o env[CredVar],
                         json |-> [prompt |-> prompt,
                                   max_tokens |-> max_tokens]]
         IN  IF "text" \in DOMAIN io.resp
             THEN DoResult(s, "remote", "none", io.resp.text, <<request>>,
                           NoResp, FALSE, NoHandle, NoHandle)
             ELSE DoResult(s, "remote", "InferenceException", <<>>,
                           <<request>>, io.resp, FALSE, NoHandle, NoHandle)
    ELSE LET m == get_model(s, FlanId, io.ldm)
             t == get_tokenizer(m.st, FlanId, io.ldt)
         IN  IF m.raised # "none"
             THEN DoResult(m.st, "local", m.raised, <<>>, <<>>, NoResp,
                           FALSE, NoHandle, NoHandle)
             ELSE IF t.raised # "none"
             THEN DoResult(t.st, "local", t.raised, <<>>, <<>>, NoResp,
                           FALSE, m.ret, NoHandle)
             ELSE DoResult(t.st, "local", "none", io.gen, <<>>, NoResp,
                           TRUE, m.ret, t.ret)

DoIO == [resp : Resps, ldm : LoadOutcomes, ldt : LoadOutcomes,
         gen : GenOutputs]

\* f"System: ...\nUser: {userprompt}\nAgent: "
chat_prompt(userprompt) ==
    <<"System: Agent responses will be truthful, helpful, and harmless.\n",
      "User: ">> \o userprompt \o <<"\n", "Agent: ">>

chat(env, s, userprompt, io) == do(env, s, chat_prompt(userprompt), io)

(***************************************************************************)
(* match                                                                   *)
(***************************************************************************)
Docs == {<<"Mars is a planet">>, <<"The sun is hot">>}
Queries == {<<"What is Mars?">>}

SeqsUpTo(S, n) == UNION {[1..k -> S] : k \in 0..n}

\* list(zip(docs, scores))
zip(docs, scores) ==
    [i \in 1..(IF Len(docs) < Len(scores) THEN Len(docs) ELSE Len(scores))
        |-> <<docs[i], scores[i]>>]

\* One step of a sort that puts an equal key before the elements already
\* placed: it reverses the original order of ties.
insert_before_ties(acc, x) ==
    LET k == Cardinality({j \in 1..Len(acc) : acc[j][2] > x[2]})
    IN  SubSeq(acc, 1, k) \o <<x>> \o SubSeq(acc, k + 1, Len(acc))

\* One step of the stable descending sort: x goes behind every element
\* already placed whose key is not smaller.
insert_desc(acc, x) ==
    LET k == Cardinality({j \in 1..Len(acc) : acc[j][2] >= x[2]})
    IN  SubSeq(acc, 1, k) \o <<x>> \o SubSeq(acc, k + 1, Len(acc))

RECURSIVE sorted_from(_, _, _)
sorted_from(pairs, i, acc) ==
    IF i > Len(pairs) THEN acc
    ELSE sorted_from(pairs, i + 1, insert_desc(acc, pairs[i]))

\* sorted(doc_score_pairs, key=lambda x: x[1], reverse=True)
sorted_desc(pairs) == sorted_from(pairs, 1, <<>>)

\* match sorting the caller's list in place (docs.sort(...)) and returning
\* its head.
match_inplace(s, query, docs, scores, ld) ==
    LET p == ModelCachePopulate(s, "SentenceTransformer", MatchId, ld)
        doc_score_pairs == sorted_desc(zip(docs, scores))
        moved == [i \in 1..Len(doc_score_pairs) |-> doc_score_pairs[i][1]]
    IN  IF p.raised # "none"
        THEN [st |-> p.st, raised |-> p.raised, ret |-> <<>>,
              docs |-> docs, handle |-> NoHandle]
        ELSE IF Len(doc_score_pairs) = 0
        THEN [st |-> p.st, raised |-> "IndexError", ret |-> <<>>,
              docs |-> moved, handle |-> p.st.mc[MatchId]]
        ELSE [st |-> p.st, raised |-> "none", ret |-> moved[1],
              docs |-> moved, handle |-> p.st.mc[MatchId]]

\* scores: what util.dot_score(query_emb, doc_emb)[0] is, one per document.
\* The result's docs field is the caller's list after the call.
match(s, query, docs, scores, ld) ==
    LET p == ModelCachePopulate(s, "SentenceTransformer", MatchId, ld)
        doc_score_pairs == sorted_desc(zip(docs, scores))
    IN  IF p.raised # "none"
        THEN [st |-> p.st, raised |-> p.raised, ret |-> <<>>,
              docs |-> docs, handle |-> NoHandle]
        ELSE IF Len(doc_score_pairs) = 0
        THEN [st |-> p.st, raised |-> "IndexError", ret |-> <<>>,
              docs |-> docs, handle |-> p.st.mc[MatchId]]
        ELSE [st |-> p.st, raised |-> "none", ret |-> doc_score_pairs[1][1],
              docs |-> docs, handle |-> p.st.mc[MatchId]]

(***************************************************************************)
(* search                                                                  *)
(***************************************************************************)
Topics == {<<"Python">>}

\* The page the page API returns for a title: a dict with an extract and,
\* unless the page has no properties, a pageprops dict (here its key set).
Pages == {[extract |-> <<"Python is a high-level">>,
           pageprops |-> {"wikibase_item"}],
          [extract |-> <<"Chemistry is">>, pageprops |-> {}],
          [extract |-> <<"Python may refer to">>,
           pageprops |-> {"disambiguation", "wikibase_item"}],
          [extract |-> <<"Mercury may refer to">>,
           pageprops |-> {"disambiguation"}],
          [extract |-> <<"A stub">>]}

\* The for loop from candidate i on. fetched counts the page requests.
RECURSIVE search_from(_, _)
search_from(pages, i) ==
    IF i > Len(pages)
    THEN [raised |-> "none", isnone |-> TRUE, ret |-> <<>>,
          fetched |-> Len(pages)]
    ELSE LET first == pages[i]
         IN  IF "pageprops" \notin DOMAIN first
             THEN [raised |-> "KeyError", isnone |-> FALSE, ret |-> <<>>,
                   fetched |-> i]
             ELSE IF "disambiguation" \in first.pageprops
             THEN search_from(pages, i + 1)
             ELSE [raised |-> "none", isnone |-> FALSE,
                   ret |-> first.extract, fetched |-> i]

\* pages: for each title the search endpoint returned, in its order, the
\* page the page API returns for it.
search(topic, pages) == search_from(pages, 1)

(***************************************************************************)
(* extract_answer, is_positive                                             *)
(***************************************************************************)
Answers == {<<"green">>}
Labels == {"POSITIVE", "NEGATIVE"}

\* answer: the "answer" field of what the pipeline returns
extract_answer(s, question, context, ld, answer) ==
    LET p == ModelCachePopulate(s, "pipeline:question-answering", QAId, ld)
    IN  IF p.raised # "none"
        THEN [st |-> p.st, raised |-> p.raised, ret |-> <<>>,
              handle |-> NoHandle]
        ELSE [st |-> p.st, raised |-> "none", ret |-> answer,
              handle |-> p.st.mc[QAId]]

\* label: the label of the first prediction of the pipeline
is_positive(s, doc, ld, label) ==
    LET p == ModelCachePopulate(s, "pipeline:text-classification",
                                SentimentId, ld)
    IN  IF p.raised # "none"
        THEN [st |-> p.st, raised |-> p.raised, ret |-> FALSE,
              handle |-> NoHandle]
        ELSE [st |-> p.st, raised |-> "none", ret |-> (label = "POSITIVE"),
              handle |-> p.st.mc[SentimentId]]

(***************************************************************************)
(* The library called sequentially: one action per function, each a whole  *)
(* call. last records the call just made.                                  *)
(***************************************************************************)
NoThreads == <<>>
NoSession == [dialog |-> <<>>, message |-> <<>>, keys |-> {}]

InitCaches ==
    /\ modelcache = <<>>
    /\ tokenizercache = <<>>
    /\ modelloads = [id \in ModelIds |-> 0]
    /\ tokloads = [id \in TokIds |-> 0]

Init ==
    /\ environ \in Environs
    /\ InitCaches
    /\ last = [op |-> "init"]
    /\ thr = NoThreads
    /\ session = NoSession

GetModel(model, ld) ==
    LET r == get_model(St, model, ld)
    IN  /\ Bounded(r.st)
        /\ Commit(r.st)
        /\ last' = [op |-> "get_model", id |-> model, ld |-> ld,
                    raised |-> r.raised, handle |-> r.ret]
        /\ UNCHANGED <<environ, thr, session>>

GetTokenizer(tokenizer, ld) ==
    LET r == get_tokenizer(St, tokenizer, ld)
    IN  /\ Bounded(r.st)
        /\ Commit(r.st)
        /\ last' = [op |-> "get_tokenizer", id |-> tokenizer, ld |-> ld,
                    raised |-> r.raised, handle |-> r.ret]
        /\ UNCHANGED <<environ, thr, session>>

Do(prompt, io) ==
    LET r == do(environ, St, prompt, io)
    IN  /\ Bounded(r.st)
        /\ Commit(r.st)
        /\ last' = [op |-> "do", id |-> FlanId, prompt |-> prompt,
                    resp |-> IF r.path = "remote" THEN io.resp ELSE NoResp,
                    path |-> r.path, raised |-> r.raised, ret |-> r.ret,
                    posts |-> r.posts, carried |-> r.carried,
                    generated |-> r.generated, handle |-> r.handle,
                    tokhandle |-> r.tokhandle]
        /\ UNCHANGED <<environ, thr, session>>

Match(query, docs, scores, ld) ==
    LET r == match(St, query, docs, scores, ld)
    IN  /\ Bounded(r.st)
        /\ Commit(r.st)
        /\ last' = [op |-> "match", id |-> MatchId, ld |-> ld,
                    docs |-> docs, scores |-> scores, docsafter |-> r.docs,
                    raised |-> r.raised, ret |-> r.ret, handle |-> r.handle]
        /\ UNCHANGED <<environ, thr, session>>

ExtractAnswer(question, context, ld, answer) ==
    LET r == extract_answer(St, question, context, ld, answer)
    IN  /\ Bounded(r.st)
        /\ Commit(r.st)
        /\ last' = [op |-> "extract_answer", id |-> QAId, ld |-> ld,
                    raised |-> r.raised, ret |-> r.ret, handle |-> r.handle]
        /\ UNCHANGED <<environ, thr, session>>

IsPositive(doc, ld, label) ==
    LET r == is_positive(St, doc, ld, label)
    IN  /\ Bounded(r.st)
        /\ Commit(r.st)
        /\ last' = [op |-> "is_positive", id |-> SentimentId, ld |-> ld,
                    raised |-> r.raised, ret |-> r.ret, handle |-> r.handle]
        /\ UNCHANGED <<environ, thr, session>>

Search(topic, pages) ==
    LET r == search(topic, pages)
    IN  /\ last' = [op |-> "search", pages |-> pages, raised |-> r.raised,
                    isnone |-> r.isnone, ret |-> r.ret, fetched |-> r.fetched]
        /\ UNCHANGED <<environ, modelcache, tokenizercache, modelloads,
                       tokloads, thr, session>>

\* The cache-populating functions and do, with one document list for match.
LibDocs == <<<<"Mars is a planet">>, <<"The sun is hot">>>>

Next ==
    \/ \E model \in {FlanId}, ld \in LoadOutcomes : GetModel(model, ld)
    \/ \E tokenizer \in TokIds, ld \in LoadOutcomes :
          GetTokenizer(tokenizer, ld)
    \/ \E prompt \in Prompts, io \in DoIO : Do(prompt, io)
    \/ \E query \in Queries, ld \in LoadOutcomes :
          Match(query, LibDocs, <<0, 1>>, ld)
    \/ \E ld \in LoadOutcomes, answer \in Answers :
          ExtractAnswer(<<"What color is the ball?">>,
                        <<"There is a green ball and a red box">>, ld, answer)
    \/ \E ld \in LoadOutcomes, label \in Labels :
          IsPositive(<<"I love you!">>, ld, label)

Spec == Init /\ [][Next]_vars

\* match over every document list and every assignment of scores: the
\* initial state holds the arguments, and the calls are made with them.
MatchArgs ==
    UNION {{[op |-> "args", docs |-> docs, scores |-> scores] :
               scores \in [1..Len(docs) -> 0..MaxScore]} :
           docs \in SeqsUpTo(Docs, MaxDocs)}

InitMatch ==
    /\ environ = <<>>
    /\ InitCaches
    /\ last \in MatchArgs
    /\ thr = NoThreads
    /\ session = NoSession

NextMatch ==
    \E query \in Queries, ld \in LoadOutcomes :
       Match(query, last.docs, last.scores, ld)

SpecMatch == InitMatch /\ [][NextMatch]_vars

\* The search endpoint returns at most limit titles.
CandLimit == IF MaxCand < search_limit THEN MaxCand ELSE search_limit

\* search over every list of candidates.
NextSearch ==
    \E topic \in Topics, pages \in SeqsUpTo(Pages, CandLimit) :
       Search(topic, pages)

SpecSearch == Init /\ [][NextSearch]_vars

(***************************************************************************)
(* Claims about the sequential library.                                    *)
(***************************************************************************)
CredSet == CredVar \in DOMAIN environ
CredNonEmpty == CredSet /\ environ[CredVar] # <<>>

CachesUnchanged ==
    /\ modelcache' = modelcache
    /\ tokenizercache' = tokenizercache

NoLoaderInvoked ==
    /\ modelloads' = modelloads
    /\ tokloads' = tokloads

\* C1, as stated: whenever the credential variable is set, whatever its
\* value, do takes the remote path, and it takes the local path only when
\* the variable is not set.
C1_SetMeansRemote ==
    last.op = "do" => (last.path = "remote" <=> CredSet)

\* C1, amended: do takes the remote path, and then neither loads nor runs
\* the local model, exactly when the credential variable is set to a
\* non-empty value; when it is unset or set to the empty string do takes
\* the local path and sends no request.
C1_NonEmptyMeansRemote ==
    [][last'.op = "do" =>
         /\ last'.path \in {"remote", "local"}
         /\ last'.path = "remote" <=> CredNonEmpty
         /\ last'.path = "remote" =>
               /\ NoLoaderInvoked
               /\ CachesUnchanged
               /\ ~last'.generated
         /\ last'.path = "local" => last'.posts = <<>>]_vars

\* do ran the local model although the variable is set (to the empty string)
C1_Witness ==
    /\ last.op = "do"
    /\ CredSet
    /\ ~CredNonEmpty
    /\ last.path = "local"
    /\ last.generated

\* C2: on the remote path do returns the text field of the response if
\* there is one, whatever its value, and otherwise raises InferenceException
\* carrying the response; either way it sends exactly one request, to the
\* completion endpoint with the prompt and the token budget, and leaves
\* both caches as they were.
C2_RemotePath ==
    [][(last'.op = "do" /\ last'.path = "remote") =>
         /\ IF "text" \in DOMAIN last'.resp
            THEN last'.raised = "none" /\ last'.ret = last'.resp.text
            ELSE /\ last'.raised = "InferenceException"
                 /\ last'.carried = last'.resp
         /\ Len(last'.posts) = 1
         /\ last'.posts[1].url = CompletionUrl
         /\ last'.posts[1].json = [prompt |-> last'.prompt,
                                   max_tokens |-> max_tokens]
         /\ CachesUnchanged]_vars

\* do raised InferenceException while a model was cached
C2_Witness ==
    /\ last.op = "do"
    /\ last.path = "remote"
    /\ last.raised = "InferenceException"
    /\ last.carried = last.resp
    /\ DOMAIN modelcache # {}

IsMax(scores, i) == \A j \in 1..Len(scores) : scores[j] <= scores[i]

FirstMax(scores) ==
    CHOOSE i \in 1..Len(scores) :
        /\ IsMax(scores, i)
        /\ \A j \in 1..(i - 1) : ~IsMax(scores, j)

\* C3: for a non-empty document list, match returns the document with the
\* maximum score, and of several documents with the maximum score the one
\* that comes first in the list.
C3_FirstMaximum ==
    (last.op = "match" /\ last.raised = "none") =>
        /\ Len(last.docs) > 0
        /\ last.ret = last.docs[FirstMax(last.scores)]

\* two different documents tie for the maximum and the first one is behind
\* a document of lower score
C3_Witness ==
    /\ last.op = "match"
    /\ last.raised = "none"
    /\ Len(last.docs) = 3
    /\ last.scores[1] < last.scores[2]
    /\ last.scores[2] = last.scores[3]
    /\ last.docs[2] # last.docs[3]
    /\ last.ret = last.docs[2]

\* C4: for a non-empty document list, what match returns is one of the
\* elements of the list, and the list is after the call what it was before.
C4_ElementOfDocs ==
    /\ (last.op = "match" /\ last.raised = "none") =>
          \E i \in 1..Len(last.docs) : last.ret = last.docs[i]
    /\ last.op = "match" => last.docsafter = last.docs
    /\ (last.op = "match" /\ Len(last.docs) > 0 /\ last.ld = "ok") =>
          last.raised = "none"

\* match returned a document that is not the head of the list
C4_Witness ==
    /\ last.op = "match"
    /\ last.raised = "none"
    /\ last.ret # last.docs[1]
    /\ last.ret = last.docs[2]
    /\ last.docsafter = last.docs

Flagged(page) ==
    "pageprops" \in DOMAIN page /\ "disambiguation" \in page.pageprops

Unflagged(pages) == {i \in 1..Len(pages) : ~Flagged(pages[i])}

FirstUnflagged(pages) ==
    CHOOSE i \in Unflagged(pages) : \A j \in Unflagged(pages) : i <= j

\* C5, as stated: search raises nothing; it returns the extract of the
\* first candidate whose page is not flagged as a disambiguation page, a
\* page without page properties included, having fetched the pages up to
\* that one and no more; and it returns no value, having fetched every
\* page, when every candidate is flagged or there is none.
C5_FirstUnflagged ==
    last.op = "search" =>
        /\ last.raised = "none"
        /\ IF Unflagged(last.pages) = {}
           THEN last.isnone /\ last.fetched = Len(last.pages)
           ELSE /\ ~last.isnone
                /\ last.ret = last.pages[FirstUnflagged(last.pages)].extract
                /\ last.fetched = FirstUnflagged(last.pages)

CacheOps == {"get_model", "get_tokenizer", "match", "extract_answer",
             "is_positive"}

\* The keys stay, mapped to the same handles, and what a call returns or
\* uses is the handle its cache holds.
C6_Held ==
    /\ \A id \in DOMAIN modelcache :
          id \in DOMAIN modelcache' /\ modelcache'[id] = modelcache[id]
    /\ \A id \in DOMAIN tokenizercache :
          /\ id \in DOMAIN tokenizercache'
          /\ tokenizercache'[id] = tokenizercache[id]
    /\ (last'.op \in CacheOps \ {"get_tokenizer"} /\ last'.raised = "none") =>
          /\ last'.id \in DOMAIN modelcache'
          /\ last'.handle = modelcache'[last'.id]
    /\ (last'.op = "get_tokenizer" /\ last'.raised = "none") =>
          /\ last'.id \in DOMAIN tokenizercache'
          /\ last'.handle = tokenizercache'[last'.id]
    /\ (last'.op = "do" /\ last'.path = "local" /\ last'.raised = "none") =>
          /\ FlanId \in DOMAIN modelcache'
          /\ last'.handle = modelcache'[FlanId]
          /\ FlanId \in DOMAIN tokenizercache'
          /\ last'.tokhandle = tokenizercache'[FlanId]

\* C6, as stated: over sequential calls a cached identifier stays cached
\* with the same handle, every call for it returns or uses that handle, and
\* the loader is invoked at most once per identifier per cache.
C6_LoaderAtMostOnce ==
    [][/\ C6_Held
       /\ \A id \in ModelIds : modelloads'[id] <= 1
       /\ \A id \in TokIds : tokloads'[id] <= 1]_vars

\* C6, amended: over sequential calls a cached identifier stays cached with
\* the same handle, every call for it returns or uses that handle, and the
\* loader is never invoked for an identifier that is cached (so it succeeds
\* at most once per identifier per cache; only a failed load is repeated).
C6_NeverReloaded ==
    [][/\ C6_Held
       /\ \A id \in DOMAIN modelcache : modelloads'[id] = modelloads[id]
       /\ \A id \in DOMAIN tokenizercache : tokloads'[id] = tokloads[id]]_vars

\* get_model returned the handle cached at the second attempt of the load
\* and did not invoke the loader, which would have failed
C6_Witness ==
    /\ last.op = "get_model"
    /\ last.raised = "none"
    /\ modelloads[last.id] = 2
    /\ last.handle = modelcache[last.id]
    /\ last.handle.n = 2
    /\ last.ld = "OSError"

\* C10: when the loader fails in get_model, get_tokenizer, match,
\* extract_answer or is_positive, the call raises what the loader raised and
\* both caches are as before, without a key for the identifier; and every
\* call for an identifier that is not cached invokes the loader.
C10_FailedLoad ==
    [][last'.op \in CacheOps =>
         /\ last'.raised # "none" =>
               /\ last'.raised = last'.ld
               /\ CachesUnchanged
               /\ last'.id \notin DOMAIN (IF last'.op = "get_tokenizer"
                                          THEN tokenizercache'
                                          ELSE modelcache')
         /\ (last'.op # "get_tokenizer" /\ last'.id \notin DOMAIN modelcache)
               => modelloads'[last'.id] = modelloads[last'.id] + 1
         /\ (last'.op = "get_tokenizer"
               /\ last'.id \notin DOMAIN tokenizercache)
               => tokloads'[last'.id] = tokloads[last'.id] + 1]_vars

\* a load that had failed was attempted again and succeeded
C10_Witness ==
    /\ last.op = "get_model"
    /\ last.raised = "none"
    /\ last.ld = "ok"
    /\ modelloads[last.id] = 2
    /\ last.handle.n = 2

(***************************************************************************)
(* Two callers in the cache-populating functions at once. A caller is      *)
(* between two statements of the function it runs: the membership test,    *)
(* the loader call, the store of its result and the read that returns or   *)
(* uses the entry are separate steps, and the steps of the two callers     *)
(* interleave in every order.                                              *)
(***************************************************************************)
Threads == {"a", "b"}

Idle == [pc |-> "idle", fn |-> "", id |-> "", tmp |-> NoHandle,
         held |-> NoHandle, raised |-> "none"]

\* The identifier, the cache and the loader of each function.
Fns == [get_model |-> [id |-> FlanId, cache |-> "model",
                       loader |-> "AutoModelForSeq2SeqLM"],
        get_tokenizer |-> [id |-> FlanId, cache |-> "tokenizer",
                           loader |-> "AutoTokenizer"],
        match |-> [id |-> MatchId, cache |-> "model",
                   loader |-> "SentenceTransformer"]]

CacheOf(t) == IF Fns[thr[t].fn].cache = "model" THEN modelcache
                                                ELSE tokenizercache

LoadsOf(t) == IF Fns[thr[t].fn].cache = "model" THEN modelloads
                                                ELSE tokloads

\* the cache and the invocation count of caller t become c and n
SetCacheOf(t, c, n) ==
    IF Fns[thr[t].fn].cache = "model"
    THEN /\ modelcache' = c
         /\ modelloads' = n
         /\ UNCHANGED <<tokenizercache, tokloads>>
    ELSE /\ tokenizercache' = c
         /\ tokloads' = n
         /\ UNCHANGED <<modelcache, modelloads>>

InitRace ==
    /\ environ = <<>>
    /\ InitCaches
    /\ last = [op |-> "init"]
    /\ thr = [t \in Threads |-> Idle]
    /\ session = NoSession

Call(t, fn) ==
    /\ thr[t].pc \in {"idle", "done"}
    /\ thr' = [thr EXCEPT ![t] = [Idle EXCEPT !.pc = "test", !.fn = fn,
                                              !.id = Fns[fn].id]]
    /\ UNCHANGED <<environ, modelcache, tokenizercache, modelloads, tokloads,
                   last, session>>

\* if model not in modelcache:
Test(t) ==
    /\ thr[t].pc = "test"
    /\ thr' = [thr EXCEPT ![t].pc = IF thr[t].id \notin DOMAIN CacheOf(t)
                                    THEN "load" ELSE "return"]
    /\ UNCHANGED <<environ, modelcache, tokenizercache, modelloads, tokloads,
                   last, session>>

\* the loader call on the right of the assignment
Load(t, ld) ==
    /\ thr[t].pc = "load"
    /\ Invocations(St) < MaxLoads
    /\ LET n == LoadsOf(t)[thr[t].id] + 1
       IN  /\ SetCacheOf(t, CacheOf(t), [LoadsOf(t) EXCEPT ![thr[t].id] = n])
           /\ thr' = [thr EXCEPT ![t] =
                        IF ld = "ok"
                        THEN [@ EXCEPT !.pc = "store",
                                       !.tmp = Handle(Fns[thr[t].fn].loader,
                                                      thr[t].id, n)]
                        ELSE [@ EXCEPT !.pc = "done", !.raised = ld]]
    /\ UNCHANGED <<environ, last, session>>

\* modelcache[model] = <the object loaded>
Store(t) ==
    /\ thr[t].pc = "store"
    /\ SetCacheOf(t, Put(CacheOf(t), thr[t].id, thr[t].tmp), LoadsOf(t))
    /\ thr' = [thr EXCEPT ![t].pc = "return"]
    /\ UNCHANGED <<environ, last, session>>

\* return modelcache[model], or the use of modelcache[model] in match
Return(t) ==
    /\ thr[t].pc = "return"
    /\ thr' = [thr EXCEPT ![t].pc = "done",
                          ![t].held = CacheOf(t)[thr[t].id]]
    /\ UNCHANGED <<environ, modelcache, tokenizercache, modelloads, tokloads,
                   last, session>>

NextRace ==
    \/ \E t \in Threads, fn \in DOMAIN Fns : Call(t, fn)
    \/ \E t \in Threads : Test(t)
    \/ \E t \in Threads, ld \in LoadOutcomes : Load(t, ld)
    \/ \E t \in Threads : Store(t)
    \/ \E t \in Threads : Return(t)

SpecRace == InitRace /\ [][NextRace]_vars

\* C7: a caller that found the identifier missing invokes the loader and
\* stores what it loaded whatever the cache holds by then, so that the
\* later of two stores replaces the earlier one.
C7_LaterStoreOverwrites ==
    [][\A t \in Threads :
         /\ (thr[t].pc = "load" /\ thr'[t].pc # "load") =>
               IF Fns[thr[t].fn].cache = "model"
               THEN modelloads'[thr[t].id] = modelloads[thr[t].id] + 1
               ELSE tokloads'[thr[t].id] = tokloads[thr[t].id] + 1
         /\ (thr[t].pc = "store" /\ thr'[t].pc = "return") =>
               IF Fns[thr[t].fn].cache = "model"
               THEN modelcache'[thr[t].id] = thr[t].tmp
               ELSE tokenizercache'[thr[t].id] = thr[t].tmp]_vars

\* both callers ran get_model for the same identifier, the loader was
\* invoked twice, the cache holds the second handle and the two callers
\* hold different handles
C7_Witness ==
    /\ \A t \in Threads : thr[t].pc = "done" /\ thr[t].fn = "get_model"
    /\ modelloads[FlanId] = 2
    /\ FlanId \in DOMAIN modelcache
    /\ modelcache[FlanId].n = 2
    /\ thr["a"].held.n = 1
    /\ thr["b"].held.n = 2

(***************************************************************************)
(* The chat demo. session is st.session_state: the keys it holds and the   *)
(* values of dialog and message. Every event of the page (a load or        *)
(* rerun, a submitted message, a click on Reset) runs the script once.     *)
(***************************************************************************)
Messages == {<<"Hi">>, <<"Bye">>}

UserMark == "User: "
AssistantMark == "\n\nAssistant: "
EndMark == "\n\n"

Primer == <<"User: Hi\n\n", "Assistant: Hello.\n\n",
            "User: Who are you?\n\n",
            "Assistant: My name is Sidney. I'm a barista in Chicago.\n\n">>

\* reset that clears only the pending message.
reset_message_only(ss) ==
    [ss EXCEPT !.message = <<>>, !.keys = @ \cup {"dialog", "message"}]

reset(ss) ==
    [ss EXCEPT !.dialog = <<>>, !.message = <<>>,
               !.keys = @ \cup {"dialog", "message"}]

\* The two statements under "Add new message to dialog" without the
\* second: the pending message is not cleared.
add_message_keep(ss) ==
    [ss EXCEPT !.dialog = @ \o <<UserMark>> \o ss.message
                            \o <<AssistantMark>>]

\* dialog += f"User: {message}\n\nAssistant: "; message = ""
add_message(ss) ==
    [ss EXCEPT !.dialog = @ \o <<UserMark>> \o ss.message
                            \o <<AssistantMark>>,
               !.message = <<>>]

\* dialog += response + "\n\n"
add_response(ss, response) ==
    [ss EXCEPT !.dialog = @ \o response \o <<EndMark>>]

\* One run of the script on session state ss. called: the arguments of the
\* calls of lm.chat; written: what st.write displayed. A call that raises
\* ends the run there.
script(env, s, ss, io) ==
    LET ss1 == IF "dialog" \notin ss.keys THEN reset(ss) ELSE ss
        ss2 == add_message(ss1)
        arg == Primer \o ss2.dialog
        r == chat(env, s, arg, io)
    IN  IF ss1.message # <<>>
        THEN IF r.raised # "none"
             THEN [ss |-> ss2, st |-> r.st, called |-> <<arg>>,
                   raised |-> r.raised, response |-> <<>>,
                   written |-> <<>>]
             ELSE [ss |-> add_response(ss2, r.ret), st |-> r.st,
                   called |-> <<arg>>, raised |-> "none",
                   response |-> r.ret,
                   written |-> <<add_response(ss2, r.ret).dialog>>]
        ELSE [ss |-> ss1, st |-> s, called |-> <<>>, raised |-> "none",
              response |-> <<>>, written |-> <<>>]

\* the number of user turns in a dialog
Turns(d) == Cardinality({i \in 1..Len(d) : d[i] = UserMark})

\* The script runs on ss, the session state the event left.
Render(event, ss, io) ==
    LET r == script(environ, St, ss, io)
    IN  /\ Bounded(r.st)
        /\ Commit(r.st)
        /\ session' = r.ss
        /\ last' = [op |-> "render", event |-> event,
                    pending |-> ss.message, dialog0 |-> ss.dialog,
                    called |-> r.called, raised |-> r.raised,
                    response |-> r.response, written |-> r.written]
        /\ UNCHANGED <<environ, thr>>

\* the page is loaded, or rerun with no change of a widget
Rerun(io) == Render("rerun", session, io)

\* the user enters a message in the text input
Submit(m, io) ==
    /\ "message" \in session.keys
    /\ Turns(session.dialog) < MaxTurns
    /\ Render("submit", [session EXCEPT !.message = m], io)

\* the user clicks Reset: on_click=reset runs before the script
ClickReset(io) ==
    /\ "message" \in session.keys
    /\ Render("reset", reset(session), io)

NextChat ==
    \/ \E io \in DoIO : Rerun(io)
    \/ \E m \in Messages, io \in DoIO : Submit(m, io)
    \/ \E io \in DoIO : ClickReset(io)

SpecChat == Init /\ [][NextChat]_vars

UserTurn(m) == <<UserMark>> \o m \o <<AssistantMark>>

Marks == {UserMark, AssistantMark, EndMark}

\* Reads dialog d from chunk i on, q saying where in a turn the reading
\* is, and returns where it ends. open: whether a user turn may stand
\* without a response.
RECURSIVE ReadTurns(_, _, _, _)
ReadTurns(d, i, q, open) ==
    IF i > Len(d) THEN q
    ELSE LET c == d[i]
             n == CASE q = "start" /\ c = UserMark -> "user"
                    [] q = "user" /\ c \notin Marks -> "message"
                    [] q = "message" /\ c \notin Marks -> "message"
                    [] q = "message" /\ c = AssistantMark -> "assistant"
                    [] q = "assistant" /\ c \notin Marks -> "response"
                    [] q = "assistant" /\ c = EndMark -> "start"
                    [] q = "assistant" /\ c = UserMark /\ open -> "user"
                    [] q = "response" /\ c \notin Marks -> "response"
                    [] q = "response" /\ c = EndMark -> "start"
                    [] OTHER -> "bad"
         IN  IF n = "bad" THEN "bad" ELSE ReadTurns(d, i + 1, n, open)

\* d is a concatenation of User/Assistant pairs
CompleteTurns(d) == ReadTurns(d, 1, "start", FALSE) = "start"

\* d is a concatenation of user turns, each with or without its response
Turnwise(d) == ReadTurns(d, 1, "start", TRUE) \in {"start", "assistant"}

IsPrefix(a, b) == Len(a) <= Len(b) /\ SubSeq(b, 1, Len(a)) = a

GrowsAndResets ==
    /\ (last'.op = "render" /\ last'.event # "reset") =>
          IsPrefix(session.dialog, session'.dialog)
    /\ (last'.op = "render" /\ last'.event = "reset") =>
          session'.dialog = <<>> /\ session'.message = <<>>

\* C9, as stated: after any renders and resets, failed chat calls included,
\* the dialog is a concatenation of complete User/Assistant pairs; between
\* resets it only grows; a reset empties the dialog and the message.
C9_CompleteTurns ==
    [][CompleteTurns(session'.dialog) /\ GrowsAndResets]_vars

\* C9, amended: after any renders and resets the dialog is a concatenation
\* of User turns, each followed by its Assistant response unless the chat
\* call of its render failed, and a turn is left without response only by
\* such a failure; between resets the dialog only grows; a reset empties
\* the dialog and the message.
C9_TurnsUnlessFailed ==
    [][/\ Turnwise(session'.dialog)
       /\ (CompleteTurns(session.dialog) /\ last'.op = "render"
             /\ last'.raised = "none") => CompleteTurns(session'.dialog)
       /\ GrowsAndResets]_vars

\* a message was answered behind a turn whose chat call had failed
C9_Witness ==
    /\ last.op = "render"
    /\ last.raised = "none"
    /\ last.dialog0 = UserTurn(<<"Hi">>)
    /\ session.dialog = UserTurn(<<"Hi">>) \o UserTurn(<<"Bye">>)
                        \o <<"Hola", EndMark>>
    /\ ~CompleteTurns(session.dialog)

====
